---- MODULE Spec2Model ----
(***************************************************************************)
(* Send-orchestration engine of the WhatsApp message automator:            *)
(* StateTracker (duplicate ledger), RateLimiter (pacing gate),             *)
(* retryWithBackoff (retry governor) and WhatsAppAutomationApp             *)
(* (initialize / run / shutdown).                                          *)
(*                                                                         *)
(* Text is a sequence of one-character strings.  Time is in milliseconds,  *)
(* as Date.now() returns it.                                               *)
(***************************************************************************)
EXTENDS Integers, Sequences, FiniteSets, TLC

(***************************************************************************)
(* Bounds of the model.  StartTime is the clock when the first process     *)
(* starts and RunGap the milliseconds between the starts of two processes. *)
(***************************************************************************)
MaxContacts == 2
MaxRuns == 2
MaxAttempts == 3
MaxWaits == 3
MaxMarks == 3
MaxTokens == 3
MaxChildren == 2
MaxCleanups == 2
MaxDays == 2
MaxClicks == 2
StartTime == 20000
RunGap == 100000

(***************************************************************************)
(* Program constants.                                                      *)
(***************************************************************************)
MsPerSecond == 1000
ChatLoadWait == 5000
ReadyWait == 3000

Max(a, b) == IF a >= b THEN a ELSE b
Min(a, b) == IF a <= b THEN a ELSE b

RECURSIVE Flatten(_)
Flatten(ss) == IF ss = <<>> THEN <<>> ELSE Head(ss) \o Flatten(Tail(ss))

(***************************************************************************)
(* csvParser.js                                                            *)
(***************************************************************************)
\* The rows the contacts file may hold: phone column (raw) and name column.
\* An empty phone cell is what makes a row invalid.
RawRows ==
  { [phoneRaw |-> <<"(", "1", ")">>,      name |-> <<"2", ":", "x">>],
    [phoneRaw |-> <<"+", "1", ":", "2">>, name |-> <<"x">>],
    [phoneRaw |-> <<>>,                   name |-> <<"y">>] }

\* /[\s-()]/g : whitespace, dash and parentheses are removed.
PhoneSeparators == {" ", "-", "(", ")"}

IsSeparator(c) == c \in PhoneSeparators

cleanPhone(raw) ==
  LET stripped == SelectSeq(raw, LAMBDA c : ~IsSeparator(c))
  IN  IF stripped # <<>> /\ Head(stripped) = "+" THEN stripped
      ELSE <<"+">> \o stripped

\* phoneField && contact[phoneField]
hasPhone(row) == row.phoneRaw # <<>>

toContact(row) == [phone |-> cleanPhone(row.phoneRaw), name |-> row.name]

RECURSIVE validRows(_)
validRows(rows) ==
  IF rows = <<>> THEN <<>>
  ELSE IF hasPhone(Head(rows))
       THEN <<toContact(Head(rows))>> \o validRows(Tail(rows))
       ELSE validRows(Tail(rows))

RECURSIVE invalidRows(_, _)
invalidRows(rows, index) ==
  IF rows = <<>> THEN <<>>
  ELSE IF hasPhone(Head(rows))
       THEN invalidRows(Tail(rows), index + 1)
       ELSE <<index + 2>> \o invalidRows(Tail(rows), index + 1)

validateContacts(rows) ==
  [valid |-> validRows(rows), invalid |-> invalidRows(rows, 0)]

(***************************************************************************)
(* templateRenderer.js                                                     *)
(***************************************************************************)
\* A template is a sequence of tokens: a literal character, or one of the
\* three placeholder forms of the field "name".
Templates == { <<>>, <<"{{name}}">> }

\* Column names that are not a valid regular-expression source: new RegExp
\* throws on them, for every contact of the file (columns: true gives every
\* row the same keys).
HeaderSets == { {"phone", "name"}, {"phone", "name", "note("} }

InvalidRegexSource == {"note("}

renderThrows(headers) == headers \cap InvalidRegexSource # {}

\* The patterns are applied in the order {{f}}, {f}, ${f}: the second one
\* consumes the braces of ${f} and leaves the dollar sign.
renderToken(tok, contact) ==
  CASE tok = "{{name}}" -> contact.name
    [] tok = "{name}"   -> contact.name
    [] tok = "${name}"  -> <<"$">> \o contact.name
    [] OTHER            -> <<tok>>

renderTemplate(template, contact) ==
  Flatten([i \in 1..Len(template) |-> renderToken(template[i], contact)])

(***************************************************************************)
(* stateTracker.js                                                         *)
(***************************************************************************)
\* createHash('sha256').update(`${phone}:${message}`): the digest is taken
\* to be injective on its input, so a hash is identified with that input.
generateHash(phone, message) == phone \o <<":">> \o message

EmptyState == [sentMessages |-> <<>>, lastUpdated |-> 0]

hashes(st) == DOMAIN st.sentMessages

wasMessageSent(st, phone, message) == generateHash(phone, message) \in hashes(st)

getMessageInfo(st, phone, message) ==
  IF generateHash(phone, message) \in hashes(st)
  THEN st.sentMessages[generateHash(phone, message)]
  ELSE [phone |-> <<>>, messageHash |-> <<>>, timestamp |-> 0]

newEntry(phone, message, t) ==
  [phone |-> phone, messageHash |-> generateHash(phone, message), timestamp |-> t]

\* markAsSent that keeps the entry a fingerprint already has.
putEntryOnce(st, phone, message, t) ==
  LET h == generateHash(phone, message)
  IN  [st EXCEPT !.sentMessages =
         [k \in DOMAIN st.sentMessages \cup {h} |->
            IF k \in DOMAIN st.sentMessages THEN st.sentMessages[k]
            ELSE newEntry(phone, message, t)]]

\* markAsSent that assigns a new object holding the one entry.
putEntryAlone(st, phone, message, t) ==
  [st EXCEPT !.sentMessages =
     [k \in {generateHash(phone, message)} |-> newEntry(phone, message, t)]]

\* this.state.sentMessages[hash] = {...}
putEntry(st, phone, message, t) ==
  LET h == generateHash(phone, message)
  IN  [st EXCEPT !.sentMessages =
         [k \in DOMAIN st.sentMessages \cup {h} |->
            IF k = h THEN newEntry(phone, message, t) ELSE st.sentMessages[k]]]

\* save(): lastUpdated is stamped before the write is tried.
stamp(st, t) == [st EXCEPT !.lastUpdated = t]

getStats(st) ==
  [totalMessages  |-> Cardinality(hashes(st)),
   uniqueContacts |-> Cardinality({st.sentMessages[h].phone : h \in hashes(st)}),
   lastUpdated    |-> st.lastUpdated]

(***************************************************************************)
(* retryLogic.js                                                           *)
(***************************************************************************)
\* setTimeout truncates a fractional delay and runs a delay below 1 as 1.
\* A delay is given as the fraction num / den of a millisecond.
timerDelay(num, den) == IF num \div den >= 1 THEN num \div den ELSE 1

\* sleep(ms) for a whole number of milliseconds.
sleep(ms) == timerDelay(ms, 1)

DefaultPolicy ==
  [max_attempts |-> 3, initial_delay_ms |-> 1000, max_delay_ms |-> 10000,
   backoff_multiplier |-> 2]

IdleRetry ==
  [attempt |-> 0, delay |-> 0, sleeps |-> <<>>, calls |-> 0,
   lastError |-> "none", status |-> "idle",
   error |-> [kind |-> "none", attempts |-> 0, last |-> "none"],
   log |-> <<>>]

\* retryWithBackoff starting from the largest delay: let delay = max_delay_ms.
retryBeginFromCap(p) ==
  [IdleRetry EXCEPT !.attempt = 1, !.delay = p.max_delay_ms,
                    !.status = IF p.max_attempts >= 1 THEN "running"
                               ELSE "rejected"]

\* Entry of retryWithBackoff: let delay = initial_delay_ms; attempt = 1.  With
\* max_attempts < 1 the loop body never runs and lastError.message throws.
retryBegin(p) ==
  IF p.max_attempts >= 1
  THEN [IdleRetry EXCEPT !.attempt = 1, !.delay = p.initial_delay_ms,
                         !.status = "running"]
  ELSE [IdleRetry EXCEPT !.attempt = 1, !.delay = p.initial_delay_ms,
                         !.status = "rejected",
                         !.error = [kind |-> "TypeError", attempts |-> 0,
                                    last |-> "none"]]

\* The backoff without its cap.
nextDelayUncapped(delay, p) == delay * p.backoff_multiplier

\* Math.min(delay * backoff_multiplier, max_delay_ms)
nextDelay(delay, p) == Min(delay * p.backoff_multiplier, p.max_delay_ms)

\* A loop that goes on to the next attempt after fn() resolved.
retryOnSuccessGoesOn(r) == [r EXCEPT !.calls = @ + 1, !.attempt = @ + 1]

\* fn() resolved: return result.
retryOnSuccess(r) == [r EXCEPT !.calls = @ + 1, !.status = "resolved"]

\* fn() rejected with err: sleep and back off, or leave the loop and throw.
retryOnError(r, p, err) ==
  IF r.attempt < p.max_attempts
  THEN [r EXCEPT !.calls = @ + 1, !.lastError = err,
                 !.sleeps = Append(@, r.delay),
                 !.delay = nextDelay(r.delay, p),
                 !.attempt = @ + 1]
  ELSE [r EXCEPT !.calls = @ + 1, !.lastError = err,
                 !.attempt = @ + 1,
                 !.status = "rejected",
                 !.error = [kind |-> "OperationFailed",
                            attempts |-> p.max_attempts, last |-> err]]

\* The time one failed attempt adds through its sleep.
retrySleepTime(r, p) == IF r.attempt < p.max_attempts THEN sleep(r.delay) ELSE 0

\* RateLimiter: the rate is the fraction num / den of a message per second,
\* so minDelayMs = 1000 * den / num.
needsWait(elapsed, rate) == elapsed * rate.num < MsPerSecond * rate.den

\* wait() that does not await its sleep.
waitSleepNotAwaited(elapsed, rate) == 0

\* sleep(minDelayMs - timeSinceLastMessage)
waitSleep(elapsed, rate) ==
  IF needsWait(elapsed, rate)
  THEN timerDelay(MsPerSecond * rate.den - elapsed * rate.num, rate.num)
  ELSE 0

\* lastMessageTime is the field of the class; waits, returns and fresh are
\* history: the number of wait() calls, the time each returned and whether
\* it was the first since construction or reset().
NewLimiter ==
  [lastMessageTime |-> 0, waits |-> 0, returns |-> <<>>, fresh |-> TRUE]

\* wait() called at time t0 and returning at time t1.
limiterWait(l, t1) ==
  [lastMessageTime |-> t1, waits |-> l.waits + 1,
   returns |-> Append(l.returns, [t |-> t1, fresh |-> l.fresh]),
   fresh |-> FALSE]

\* reset() that leaves lastMessageTime as it is.
limiterResetKeeps(l) == [l EXCEPT !.fresh = TRUE]

\* reset()
limiterReset(l) == [l EXCEPT !.lastMessageTime = 0, !.fresh = TRUE]

(***************************************************************************)
(* whatsappAutomation.js: sendMessage                                      *)
(***************************************************************************)
\* text: message && message.trim().length > 0; image: imagePath is set.
\* confirmed: verifyMessageSent() saw a check mark during this call.
\* imageSends, textSends: history, the times the send button was clicked for
\* the image and Enter was pressed for the text, over all the calls.
IdleSend ==
  [text |-> FALSE, image |-> FALSE, confirmed |-> FALSE, result |-> "none",
   imageSends |-> 0, textSends |-> 0]

\* sendMessage(phone, message, imagePath, imageCaption) is entered.
sendBegin(t) == [t EXCEPT !.confirmed = FALSE, !.result = "pending"]

\* The step after the invalid-number check: the image when there is one,
\* else the text when there is one, else the end of the function.
afterNumberCheck(t) ==
  IF t.image THEN "image" ELSE IF t.text THEN "text" ELSE "return"

\* The step after sendImageWithCaption returned: `return` when there is no
\* text message, else the text.
afterImage(t) == IF t.text THEN "text" ELSE "return"

\* if (!messageSent) throw new Error('Message may not have been sent properly')
afterVerify(seen) == IF seen THEN "return" ELSE "throw"

(***************************************************************************)
(* State                                                                   *)
(***************************************************************************)
VARIABLES
  contacts,     \* rows of the contacts CSV file
  template,     \* content of the message template file
  headers,      \* column names of the CSV file
  policy,       \* config.retry
  rate,         \* config.rate_limit, as a fraction
  screenshots,  \* config.screenshots: the section is missing, or present
  file,         \* the state file: absent, corrupt, or the JSON of a state
  state,        \* StateTracker.state of the running process
  dryRun,       \* WhatsAppAutomationApp.dryRun
  whatsapp,     \* the WhatsAppAutomation object and its browser
  pc,           \* where the process is
  run,          \* number of processes started so far
  valid,        \* validateContacts(contacts).valid
  i,            \* index of the contact in the loop (from 1)
  stats,        \* run()'s stats object
  summary,      \* TRUE once the summary was logged
  exitCode,     \* argument of process.exit, -1 before
  now,          \* Date.now()
  rl,           \* the RateLimiter
  rt,           \* the frame of the retryWithBackoff call in progress
  outcome,      \* history: terminal state of each contact of this run
  transportLog, \* history: Transport operations invoked by this run
  sendOk,       \* history: contacts of this run whose sendMessage resolved
  sendErr,      \* history: contacts of this run with a rejected sendMessage
  delivered,    \* history: pairs whose sendMessage completed, all runs
  fileAtStart,  \* history: the state file when this process started
  loaded,       \* history: state after StateTracker.load()
  prev,         \* history: how the previous process ended
  marks,        \* history: the calls made on a StateTracker alone
  cause,        \* history: what ended, or is ending, this process
  closeCalls,   \* history: calls of whatsapp.close() made by this process
  tx,           \* the frame of a sendMessage call followed step by step
  rendered,     \* what a renderTemplate call on its own returned
  automationProcess, \* GUI main process: the child it refers to, 0 for null
  children,     \* GUI: the automation child processes spawned so far
  running,      \* GUI renderer: the state set by setRunningState
  pending,      \* GUI: a delete handler between its readFile and writeFile
  clicked       \* GUI renderer: Run click handlers awaiting save-config

vars ==
  <<contacts, template, headers, policy, rate, screenshots, file, state,
    dryRun, whatsapp, pc, run, valid, i, stats, summary, exitCode, now, rl, rt,
    outcome, transportLog, sendOk, sendErr, delivered, fileAtStart, loaded,
    prev, marks, cause, closeCalls, tx, rendered, automationProcess,
    children, running, pending, clicked>>

inputs == <<contacts, template, headers, policy, rate, screenshots>>
history == <<fileAtStart, loaded, prev, marks>>
gui == <<automationProcess, children, running, pending, clicked>>

\* No delete handler of the GUI is between its read and its write.
NoDelete == [active |-> FALSE, hashes |-> {}, read |-> EmptyState]

SeqsUpTo(S, n) == UNION { [1..k -> S] : k \in 0..n }

AbsentFile  == [kind |-> "absent",  data |-> EmptyState]
CorruptFile == [kind |-> "corrupt", data |-> EmptyState]
JsonFile(st) == [kind |-> "json", data |-> st]

ZeroStats == [total |-> 0, sent |-> 0, skipped |-> 0, failed |-> 0]
NoRun == [ended |-> "none", dryRun |-> FALSE, allSent |-> FALSE]

\* delivered counts the completed sendMessage calls of each pair.
count(bag, x) == IF x \in DOMAIN bag THEN bag[x] ELSE 0
add(bag, x) == [y \in DOMAIN bag \cup {x} |-> IF y = x THEN count(bag, x) + 1 ELSE bag[y]]

\* config.retry of the runs: one attempt, or one retry.
RunPolicies ==
  { [DefaultPolicy EXCEPT !.max_attempts = 1],
    [DefaultPolicy EXCEPT !.max_attempts = 2] }

RunRates == { [num |-> 1, den |-> 10] }

\* config.yaml with or without its screenshots: section.
ScreenshotConfigs == {"missing", "present"}

\* The process-local part of the state before main() runs.
Fresh ==
  /\ state = EmptyState
  /\ dryRun = FALSE
  /\ whatsapp = "null"
  /\ valid = <<>>
  /\ i = 0
  /\ stats = ZeroStats
  /\ summary = FALSE
  /\ exitCode = -1
  /\ rl = NewLimiter
  /\ rt = IdleRetry
  /\ outcome = <<>>
  /\ transportLog = {}
  /\ sendOk = {}
  /\ sendErr = {}
  /\ cause = "none"
  /\ closeCalls = 0
  /\ tx = IdleSend
  /\ rendered = <<>>
  /\ automationProcess = 0
  /\ children = <<>>
  /\ running = FALSE
  /\ pending = NoDelete
  /\ clicked = <<>>

Init ==
  /\ contacts \in SeqsUpTo(RawRows, MaxContacts)
  /\ template \in Templates
  /\ headers \in HeaderSets
  /\ policy \in RunPolicies
  /\ rate \in RunRates
  /\ screenshots \in ScreenshotConfigs
  /\ file \in {AbsentFile, CorruptFile, JsonFile(EmptyState)}
  /\ pc = "idle"
  /\ run = 0
  /\ now = StartTime
  /\ delivered = <<>>
  /\ fileAtStart = file
  /\ loaded = EmptyState
  /\ prev = NoRun
  /\ marks = <<>>
  /\ Fresh

(***************************************************************************)
(* StateTracker.load / save against the file system                        *)
(***************************************************************************)
\* fs.writeFile either completes, fails leaving the file as it was, or fails
\* after truncating it.
WriteOutcomes == {"ok", "failed", "torn"}

writeFile(f, st, w) ==
  CASE w = "ok"     -> JsonFile(st)
    [] w = "failed" -> f
    [] OTHER        -> CorruptFile

\* save(): stamps lastUpdated, then writes; throws unless the write completed.
save(st, f, t, w) ==
  [ok |-> w = "ok", state |-> stamp(st, t), file |-> writeFile(f, stamp(st, t), w)]

\* load() without the fs.access check: every start writes a new empty state.
loadOverwrites(f, t, w) == save(EmptyState, f, t, w)

\* load() that starts from an empty ledger when the file does not parse.
loadForgiving(f, t, w) ==
  CASE f.kind = "absent"  -> save(EmptyState, f, t, w)
    [] f.kind = "corrupt" -> [ok |-> TRUE, state |-> EmptyState, file |-> f]
    [] OTHER              -> [ok |-> TRUE, state |-> f.data, file |-> f]

\* load() that starts from an empty ledger without creating the file.
loadNoCreate(f, t, w) ==
  CASE f.kind = "absent"  -> [ok |-> TRUE, state |-> EmptyState, file |-> f]
    [] f.kind = "corrupt" -> [ok |-> FALSE, state |-> EmptyState, file |-> f]
    [] OTHER              -> [ok |-> TRUE, state |-> f.data, file |-> f]

\* load(): creates the file when it does not exist, else reads and parses it.
load(f, t, w) ==
  CASE f.kind = "absent"  -> save(EmptyState, f, t, w)
    [] f.kind = "corrupt" -> [ok |-> FALSE, state |-> EmptyState, file |-> f]
    [] OTHER              -> [ok |-> TRUE, state |-> f.data, file |-> f]

\* markAsSent(): the entry is put in memory first, then the state is saved.
markAsSent(st, f, phone, message, t, w) ==
  save(putEntry(st, phone, message, t), f, t, w)

(***************************************************************************)
(* WhatsAppAutomationApp                                                   *)
(***************************************************************************)
CurContact == valid[i]
CurMessage == renderTemplate(template, CurContact)

\* main() of a new process: initialize().
Initialize(dry, configOk, w) ==
  /\ pc \in {"idle", "exited"}
  /\ run < MaxRuns
  /\ run' = run + 1
  /\ prev' = IF pc = "exited"
             THEN [ended |-> "exited", dryRun |-> dryRun,
                   allSent |-> summary /\ stats.sent = stats.total]
             ELSE prev
  /\ fileAtStart' = file
  /\ valid' = <<>>
  /\ i' = 0
  /\ stats' = ZeroStats
  /\ summary' = FALSE
  /\ exitCode' = -1
  /\ rt' = IdleRetry
  /\ outcome' = <<>>
  /\ transportLog' = {}
  /\ sendOk' = {}
  /\ sendErr' = {}
  /\ rl' = NewLimiter
  /\ closeCalls' = 0
  /\ now' = StartTime + run * RunGap
  /\ UNCHANGED <<inputs, tx, rendered, gui, delivered, marks>>
  /\ IF ~configOk
     THEN /\ dryRun' = FALSE
          /\ cause' = "config"
          /\ state' = EmptyState
          /\ loaded' = EmptyState
          /\ whatsapp' = "null"
          /\ pc' = "fatal"
          /\ UNCHANGED file
     ELSE LET l == load(file, now, w)
          IN  /\ dryRun' = dry
              /\ state' = l.state
              /\ loaded' = l.state
              /\ file' = l.file
              /\ whatsapp' = IF l.ok /\ ~dry THEN "created" ELSE "null"
              /\ pc' = IF l.ok THEN "initialized" ELSE "fatal"
              /\ cause' = IF l.ok THEN "none" ELSE "ledger"

\* run() up to the contact loop.
RunStart(filesOk, initOk, launched) ==
  /\ pc = "initialized"
  /\ UNCHANGED <<inputs, tx, rendered, gui, file, state, dryRun, run, summary, exitCode, rl, rt,
                 outcome, sendOk, sendErr, delivered, history, closeCalls>>
  /\ IF ~filesOk
     THEN /\ pc' = "fatal"
          /\ cause' = "files"
          /\ UNCHANGED <<valid, i, stats, whatsapp, transportLog, now>>
     ELSE LET v == validateContacts(contacts).valid
          IN  /\ valid' = v
              /\ IF Len(v) = 0
                 THEN /\ pc' = "done"
                      /\ UNCHANGED <<i, stats, whatsapp, transportLog, now, cause>>
                 ELSE IF dryRun
                 THEN /\ pc' = "loop"
                      /\ i' = 1
                      /\ stats' = [ZeroStats EXCEPT !.total = Len(v)]
                      /\ UNCHANGED <<whatsapp, transportLog, now, cause>>
                 ELSE /\ transportLog' = transportLog \cup {"initialize"}
                      /\ IF initOk
                         THEN /\ whatsapp' = "running"
                              /\ now' = now + sleep(ReadyWait)
                              /\ pc' = "loop"
                              /\ i' = 1
                              /\ stats' = [ZeroStats EXCEPT !.total = Len(v)]
                              /\ UNCHANGED cause
                         ELSE /\ whatsapp' = IF launched THEN "running" ELSE "created"
                              /\ pc' = "fatal"
                              /\ cause' = "transport"
                              /\ UNCHANGED <<i, stats, now>>

\* The catch block taking its screenshot unconditionally.
screenshotAlways(w, dry) == TRUE

\* takeScreenshot(filename): config.screenshots.enabled is read before the
\* try block, so the call throws when config has no screenshots section;
\* every failure inside the try block is logged and swallowed.
takeScreenshotThrows(cfg) == cfg = "missing"

\* if (this.whatsapp && !this.dryRun) takeScreenshot
screenshotOnFailure(w, dry) == w # "null" /\ ~dry

\* The catch block without stats.failed++.
CaughtUncounted(kind, log) ==
  /\ stats' = stats
  /\ outcome' = Append(outcome, kind)
  /\ IF whatsapp # "null" /\ ~dryRun
     THEN /\ transportLog' = log \cup {"takeScreenshot"}
          /\ IF takeScreenshotThrows(screenshots)
             THEN pc' = "fatal" /\ cause' = "screenshot" /\ i' = i
             ELSE pc' = "loop" /\ cause' = cause /\ i' = i + 1
     ELSE /\ transportLog' = log
          /\ pc' = "loop" /\ cause' = cause /\ i' = i + 1

\* The catch block stepping over the contact that follows the failed one.
CaughtSkipsNext(kind, log) ==
  /\ stats' = [stats EXCEPT !.failed = @ + 1]
  /\ outcome' = Append(outcome, kind)
  /\ transportLog' = IF whatsapp # "null" /\ ~dryRun
                     THEN log \cup {"takeScreenshot"} ELSE log
  /\ pc' = "loop" /\ cause' = cause /\ i' = i + 2

\* The catch block of the contact loop.
\* An error thrown by takeScreenshot leaves the loop and run().
Caught(kind, log) ==
  /\ stats' = [stats EXCEPT !.failed = @ + 1]
  /\ outcome' = Append(outcome, kind)
  /\ IF screenshotOnFailure(whatsapp, dryRun)
     THEN /\ transportLog' = log \cup {"takeScreenshot"}
          /\ IF takeScreenshotThrows(screenshots)
             THEN pc' = "fatal" /\ cause' = "screenshot" /\ i' = i
             ELSE pc' = "loop" /\ cause' = cause /\ i' = i + 1
     ELSE /\ transportLog' = log
          /\ pc' = "loop" /\ cause' = cause /\ i' = i + 1

\* The loop body testing the dry-run flag before the duplicate check.
branchDryRunFirst(st, dry, phone, message) ==
  IF dry THEN "dryRun"
  ELSE IF wasMessageSent(st, phone, message) THEN "skip" ELSE "send"

\* The loop body without its duplicate check.
branchNoSkip(st, dry, phone, message) == IF dry THEN "dryRun" ELSE "send"

\* The loop body without its dry-run branch.
branchNoDryRun(st, dry, phone, message) ==
  IF wasMessageSent(st, phone, message) THEN "skip" ELSE "send"

\* The way one contact takes through the loop body once its message is
\* rendered: the duplicate check comes first, then the dry-run check.
branch(st, dry, phone, message) ==
  IF wasMessageSent(st, phone, message) THEN "skip"
  ELSE IF dry THEN "dryRun"
  ELSE "send"

\* One iteration of the loop up to the call of retryWithBackoff.
Contact ==
  /\ pc = "loop"
  /\ i <= Len(valid)
  /\ UNCHANGED <<inputs, tx, rendered, gui, file, state, dryRun, whatsapp, run, valid, summary,
                 exitCode, sendOk, sendErr, delivered, history, closeCalls>>
  /\ IF renderThrows(headers)
     THEN /\ Caught("Failed:render", transportLog)
          /\ UNCHANGED <<now, rl, rt>>
     ELSE IF branch(state, dryRun, CurContact.phone, CurMessage) = "skip"
     THEN /\ stats' = [stats EXCEPT !.skipped = @ + 1]
          /\ outcome' = Append(outcome, "Skipped")
          /\ i' = i + 1
          /\ UNCHANGED <<pc, now, rl, rt, transportLog, cause>>
     ELSE IF branch(state, dryRun, CurContact.phone, CurMessage) = "dryRun"
     THEN /\ stats' = [stats EXCEPT !.sent = @ + 1]
          /\ outcome' = Append(outcome, "DryRunLogged")
          /\ i' = i + 1
          /\ UNCHANGED <<pc, now, rl, rt, transportLog, cause>>
     ELSE LET t == now + waitSleep(now - rl.lastMessageTime, rate)
              r == retryBegin(policy)
          IN  /\ now' = t
              /\ rl' = limiterWait(rl, t)
              /\ rt' = r
              /\ IF r.status = "rejected"
                 THEN Caught("Failed:retry", transportLog)
                 ELSE /\ pc' = "send"
                      /\ UNCHANGED <<stats, outcome, i, transportLog, cause>>

\* One attempt of retryWithBackoff: whatsapp.sendMessage resolves or rejects.
SendAttempt(ok) ==
  /\ pc = "send"
  /\ UNCHANGED <<inputs, tx, rendered, gui, file, state, dryRun, whatsapp, run, valid, summary,
                 exitCode, rl, history, closeCalls>>
  /\ rt.status = "running"
  /\ sendOk' = IF ok THEN sendOk \cup {i} ELSE sendOk
  /\ sendErr' = IF ok THEN sendErr ELSE sendErr \cup {i}
  /\ IF ok
     THEN /\ rt' = [retryOnSuccess(rt) EXCEPT !.log = Append(rt.log, "ok")]
          /\ delivered' = add(delivered, <<CurContact.phone, CurMessage>>)
          /\ now' = now + sleep(ChatLoadWait)
          /\ transportLog' = transportLog \cup {"sendMessage"}
          /\ pc' = "mark"
          /\ UNCHANGED <<stats, outcome, i, cause>>
     ELSE LET r == retryOnError(rt, policy, "send failed")
          IN  /\ rt' = [r EXCEPT !.log = Append(rt.log, "send failed")]
              /\ now' = now + sleep(ChatLoadWait) + retrySleepTime(rt, policy)
              /\ UNCHANGED delivered
              /\ IF r.status = "rejected"
                 THEN Caught("Failed:retry", transportLog \cup {"sendMessage"})
                 ELSE /\ transportLog' = transportLog \cup {"sendMessage"}
                      /\ UNCHANGED <<pc, stats, outcome, i, cause>>

\* stateTracker.markAsSent after the send, then stats.sent++.
MarkAsSent(w) ==
  /\ pc = "mark"
  /\ UNCHANGED <<inputs, tx, rendered, gui, dryRun, whatsapp, run, valid, summary, exitCode, now,
                 rl, rt, sendOk, sendErr, delivered, history, closeCalls>>
  /\ LET m == markAsSent(state, file, CurContact.phone, CurMessage, now, w)
     IN  /\ state' = m.state
         /\ file' = m.file
         /\ IF m.ok
            THEN /\ stats' = [stats EXCEPT !.sent = @ + 1]
                 /\ outcome' = Append(outcome, "Sent")
                 /\ i' = i + 1
                 /\ pc' = "loop"
                 /\ UNCHANGED <<transportLog, cause>>
            ELSE Caught("Failed:mark", transportLog)

\* The loop is over: the summary and the state tracker stats are logged.
Summary ==
  /\ pc = "loop"
  /\ i > Len(valid)
  /\ summary' = TRUE
  /\ pc' = "done"
  /\ UNCHANGED <<inputs, tx, rendered, gui, file, state, dryRun, whatsapp, run, valid, i, stats,
                 exitCode, now, rl, rt, outcome, transportLog, sendOk, sendErr,
                 delivered, history, cause, closeCalls>>

\* main() ending with process.exit(0) in its catch block too.
exitStatusZero(inCatch) == 0

\* process.exit(0) at the end of main()'s try block, process.exit(1) at the
\* end of its catch block.
exitStatus(inCatch) == IF inCatch THEN 1 ELSE 0

\* createLogger runs right after loadConfig: app.logger is null only when
\* the configuration could not be loaded.
hasLogger == cause # "config"

\* main(): app.shutdown(), in the try block after run() returned or in the
\* catch block.  shutdown() logs first, so without a logger it throws and
\* the rejection of main() ends the process with code 1; otherwise it calls
\* whatsapp.close() when the browser is connected and awaits it.
Shutdown ==
  /\ pc \in {"done", "fatal"}
  /\ UNCHANGED <<inputs, tx, rendered, gui, file, state, dryRun, run, valid, i, stats, summary,
                 now, rl, rt, outcome, sendOk, sendErr, delivered, history,
                 cause>>
  /\ IF ~hasLogger
     THEN /\ pc' = "exited"
          /\ exitCode' = 1
          /\ UNCHANGED <<whatsapp, transportLog, closeCalls>>
     ELSE IF whatsapp = "running"
     THEN /\ whatsapp' = "closing"
          /\ closeCalls' = closeCalls + 1
          /\ transportLog' = transportLog \cup {"close"}
          /\ pc' = IF pc = "done" THEN "closing" ELSE "fatalClosing"
          /\ UNCHANGED exitCode
     ELSE /\ pc' = "exited"
          /\ exitCode' = exitStatus(pc = "fatal")
          /\ UNCHANGED <<whatsapp, transportLog, closeCalls>>

\* browser.close() resolved: shutdown() returns and main() calls
\* process.exit(0), or process.exit(1) in its catch block.
Exit ==
  /\ pc \in {"closing", "fatalClosing"}
  /\ whatsapp' = "closed"
  /\ exitCode' = exitStatus(pc = "fatalClosing")
  /\ pc' = "exited"
  /\ UNCHANGED <<inputs, tx, rendered, gui, file, state, dryRun, run, valid, i, stats, summary,
                 now, rl, rt, outcome, transportLog, sendOk, sendErr,
                 delivered, history, cause, closeCalls>>

\* The points at which the event loop can run a signal handler: the process
\* is awaiting I/O or a timer.
Awaiting == {"initialized", "loop", "send", "mark", "closing", "fatalClosing"}

\* whatsapp.isRunning(): browser && browser.isConnected().  While an earlier
\* close() is being awaited the browser may or may not still be connected.
isRunning(w, connected) == w = "running" \/ (w = "closing" /\ connected)

\* The file a process leaves when it ends while markAsSent may be writing:
\* the write had not started, was under way, or was complete.
fileLeft(w) ==
  IF pc = "mark"
  THEN markAsSent(state, file, CurContact.phone, CurMessage, now, w).file
  ELSE file

\* process.exit from a signal handler, or a kill: the loop's variables are
\* gone with the process, whose run logged no summary.
Gone ==
  /\ valid' = <<>>
  /\ i' = 0
  /\ stats' = ZeroStats
  /\ summary' = FALSE
  /\ rl' = NewLimiter
  /\ rt' = IdleRetry
  /\ outcome' = <<>>
  /\ sendOk' = {}
  /\ sendErr' = {}

\* SIGINT or SIGTERM (the GUI's Stop sends SIGTERM): the handler runs
\* app.shutdown() and then process.exit(0), whatever main() is awaiting.
Signal(connected, w) ==
  /\ pc \in Awaiting
  /\ cause' = "signal"
  /\ IF isRunning(whatsapp, connected)
     THEN /\ closeCalls' = closeCalls + 1
          /\ transportLog' = transportLog \cup {"close"}
     ELSE UNCHANGED <<closeCalls, transportLog>>
  /\ whatsapp' = IF whatsapp \in {"running", "closing"} THEN "closed"
                 ELSE whatsapp
  /\ file' = fileLeft(w)
  /\ exitCode' = 0
  /\ pc' = "exited"
  /\ Gone
  /\ UNCHANGED <<inputs, tx, rendered, gui, state, dryRun, run, now, delivered, history>>

\* The process is killed or the machine stops: nothing more runs.
Crash(w) ==
  /\ pc \in Awaiting
  /\ cause' = "crash"
  /\ file' = fileLeft(w)
  /\ exitCode' = 137
  /\ pc' = "exited"
  /\ Gone
  /\ UNCHANGED <<inputs, tx, rendered, gui, state, dryRun, whatsapp, run, now, transportLog,
                 delivered, history, closeCalls>>

\* The outcomes of the write a step may make: one outcome where it makes none.
Writes(writing) == IF writing THEN WriteOutcomes ELSE {"ok"}

Next ==
  \/ \E dry \in BOOLEAN, configOk \in BOOLEAN,
        w \in Writes(file.kind = "absent") :
       Initialize(dry, configOk, w)
  \/ \E filesOk \in BOOLEAN, initOk \in BOOLEAN, launched \in BOOLEAN :
       RunStart(filesOk, initOk, launched)
  \/ Contact
  \/ \E ok \in BOOLEAN : SendAttempt(ok)
  \/ \E w \in WriteOutcomes : MarkAsSent(w)
  \/ Summary
  \/ Shutdown
  \/ Exit
  \/ \E connected \in (IF whatsapp = "closing" THEN BOOLEAN ELSE {TRUE}),
        w \in Writes(pc = "mark") :
       Signal(connected, w)
  \/ \E w \in Writes(pc = "mark") : Crash(w)

Spec == Init /\ [][Next]_vars

(***************************************************************************)
(* Properties of the runs                                                  *)
(***************************************************************************)
\* The run finished iterating its contacts.
Finished == pc \in {"done", "exited"} /\ summary

\* Rows with a non-empty phone cell: the valid (post-filter) contacts.
ValidCount == Cardinality({k \in DOMAIN contacts : contacts[k].phoneRaw # <<>>})

Pair(k) == <<valid[k].phone, renderTemplate(template, valid[k])>>
PairHash(k) == generateHash(valid[k].phone, renderTemplate(template, valid[k]))

AllSentStats(n) == [total |-> n, sent |-> n, skipped |-> 0, failed |-> 0]
AllSkippedStats(n) == [total |-> n, sent |-> 0, skipped |-> n, failed |-> 0]

\* What the state file persists: an absent or unreadable file holds nothing.
fileEntries(f) == IF f.kind = "json" THEN f.data.sentMessages ELSE <<>>

\* C1: across the runs that share the state file, sendMessage completes at
\* most once for each (phone, rendered message) pair.
C1_AtMostOnce == \A p \in DOMAIN delivered : delivered[p] <= 1

\* C2: when a run has finished iterating its contacts, total equals
\* sent + skipped + failed, and total is the number of valid contacts, so
\* the invalid rows are in none of the counters.
C2_StatsInvariant ==
  Finished =>
    /\ stats.total = stats.sent + stats.skipped + stats.failed
    /\ stats.total = ValidCount

C2_Witness ==
  /\ Finished
  /\ \E k \in DOMAIN outcome : outcome[k] = "Failed:mark"
  /\ ValidCount < Len(contacts)

\* C3 as stated: after a dry run no Transport operation was invoked, the
\* in-memory entries are those loaded and the state file is what it was
\* before the process started, whether or not it existed.
C3_DryRunFileUntouched ==
  (dryRun /\ pc = "exited") =>
    /\ transportLog = {}
    /\ state.sentMessages = loaded.sentMessages
    /\ file = fileAtStart

\* C3 amended: in a dry run no Transport operation is invoked and no ledger
\* entry is added or removed, in memory or in the state file; a state file
\* that existed is left as it was, one that did not exist is created by
\* load() without entries.
C3_DryRunLedgerKept ==
  dryRun =>
    /\ transportLog = {}
    /\ state.sentMessages = loaded.sentMessages
    /\ loaded.sentMessages = fileEntries(fileAtStart)
    /\ fileEntries(file) = fileEntries(fileAtStart)
    /\ fileAtStart.kind # "absent" => file = fileAtStart

C3_Witness ==
  /\ dryRun
  /\ pc = "exited"
  /\ summary
  /\ stats.sent >= 1
  /\ fileAtStart.kind = "absent"
  /\ file.kind = "json"

PairsDistinct ==
  \A j, k \in DOMAIN valid : j # k => Pair(j) # Pair(k)

\* C4: a live run that starts from an empty ledger, whose Transport always
\* succeeds and whose N contacts have pairwise distinct pairs, ends with
\* stats {N, N, 0, 0} and N ledger entries.
C4_FreshLiveRun ==
  ( /\ Finished
    /\ ~dryRun
    /\ hashes(loaded) = {}
    /\ sendErr = {}
    /\ ~renderThrows(headers)
    /\ PairsDistinct )
  => /\ stats = AllSentStats(Len(valid))
     /\ Cardinality(hashes(state)) = Len(valid)

\* C5: a live run that follows a live run in which every contact was sent
\* ends with stats {N, 0, N, 0}, calls neither sendMessage nor the rate
\* limiter, and leaves the ledger, in memory and in the file, as it found it.
C5_RerunIdempotent ==
  ( /\ Finished
    /\ ~dryRun
    /\ prev.ended = "exited"
    /\ ~prev.dryRun
    /\ prev.allSent )
  => /\ stats = AllSkippedStats(Len(valid))
     /\ "sendMessage" \notin transportLog
     /\ rl.waits = 0
     /\ state = loaded
     /\ file = fileAtStart

C5_Witness ==
  /\ Finished
  /\ ~dryRun
  /\ prev.ended = "exited"
  /\ ~prev.dryRun
  /\ prev.allSent
  /\ stats.skipped = 2

\* Every sendMessage attempt of contact k was rejected.
Exhausted(k) == k \in sendErr /\ k \notin sendOk

\* C6: in a live run a contact whose every attempt failed is counted as
\* failed and gets no ledger entry, and every contact whose send succeeded
\* is counted as sent and gets a new ledger entry.
C6_PartialFailure ==
  (Finished /\ ~dryRun) =>
    /\ \A k \in DOMAIN valid :
         /\ Exhausted(k) =>
              /\ outcome[k] = "Failed:retry"
              /\ PairHash(k) \in hashes(state) =>
                   \/ PairHash(k) \in hashes(loaded)
                   \/ \E j \in sendOk : PairHash(j) = PairHash(k)
         /\ k \in sendOk =>
              /\ outcome[k] = "Sent"
              /\ PairHash(k) \in hashes(state) \ hashes(loaded)
    /\ stats.sent = Cardinality(sendOk)
    /\ stats.failed = Cardinality({k \in DOMAIN valid : Exhausted(k)})

\* C7: a dry run over N contacts none of whose pairs the ledger holds ends
\* with stats {N, N, 0, 0} and with as many ledger entries as before.
C7_DryRunStats ==
  ( /\ Finished
    /\ dryRun
    /\ ~renderThrows(headers)
    /\ \A k \in DOMAIN valid : ~wasMessageSent(loaded, Pair(k)[1], Pair(k)[2]) )
  => /\ stats = AllSentStats(Len(valid))
     /\ Cardinality(hashes(state)) = Cardinality(hashes(loaded))
     /\ Cardinality(DOMAIN fileEntries(file)) =
          Cardinality(DOMAIN fileEntries(fileAtStart))

C7_Witness ==
  /\ Finished
  /\ dryRun
  /\ stats = AllSentStats(2)
  /\ hashes(state) = {}

(***************************************************************************)
(* The components on their own: each specification below drives one of     *)
(* them with inputs wider than a run gives it.                             *)
(***************************************************************************)
\* The application at rest.
AtRest ==
  /\ contacts = <<>>
  /\ template = <<>>
  /\ headers = {"phone", "name"}
  /\ screenshots = "present"
  /\ run = 0
  /\ delivered = <<>>
  /\ fileAtStart = AbsentFile
  /\ loaded = EmptyState
  /\ prev = NoRun
  /\ marks = <<>>
  /\ Fresh

app ==
  <<contacts, template, headers, dryRun, whatsapp, run, valid, i, stats,
    summary, exitCode, outcome, transportLog, sendOk, sendErr, delivered,
    fileAtStart, loaded, prev, screenshots, cause, closeCalls>>

\* ---- retryWithBackoff ----
TestPolicies ==
  [max_attempts : 0..MaxAttempts, initial_delay_ms : {1000, 20000},
   max_delay_ms : {10000}, backoff_multiplier : {1, 2}]

\* The messages of the errors the operation may throw.
OpErrors == {"e1", "e2"}

InitRetry ==
  /\ policy \in TestPolicies
  /\ rate = [num |-> 1, den |-> 1]
  /\ file = AbsentFile
  /\ now = StartTime
  /\ pc = "call"
  /\ AtRest

\* retryWithBackoff(fn, config, logger) is called.
RetryCall ==
  /\ pc = "call"
  /\ rt' = retryBegin(policy)
  /\ pc' = "retrying"
  /\ UNCHANGED <<app, tx, rendered, gui, policy, rate, file, state, now, rl, marks>>

\* fn() settles: it resolves, or rejects with an error.
RetryAttempt(res) ==
  /\ pc = "retrying"
  /\ rt.status = "running"
  /\ IF res = "ok"
     THEN /\ rt' = [retryOnSuccess(rt) EXCEPT !.log = Append(rt.log, res)]
          /\ now' = now
     ELSE /\ rt' = [retryOnError(rt, policy, res) EXCEPT !.log = Append(rt.log, res)]
          /\ now' = now + retrySleepTime(rt, policy)
  /\ UNCHANGED <<app, tx, rendered, gui, policy, rate, file, state, pc, rl, marks>>

NextRetry ==
  \/ RetryCall
  \/ \E res \in {"ok"} \cup OpErrors : RetryAttempt(res)

SpecRetry == InitRetry /\ [][NextRetry]_vars

\* ---- RateLimiter ----
\* 1, 3, 4 and 0.5 messages per second.
TestRates ==
  { [num |-> 1, den |-> 1], [num |-> 3, den |-> 1], [num |-> 4, den |-> 1],
    [num |-> 1, den |-> 2] }

\* What the caller may spend between two calls, in milliseconds.
WorkTimes == {1, 334, 1000}

\* How late a timer may fire, in milliseconds.
Lateness == {0, 1}

InitPacing ==
  /\ rate \in TestRates
  /\ policy = DefaultPolicy
  /\ file = AbsentFile
  /\ now = StartTime
  /\ pc = "ready"
  /\ AtRest

\* await rateLimiter.wait()
PacingWait(late) ==
  /\ pc \in {"ready", "worked"}
  /\ rl.waits < MaxWaits
  /\ LET t == now + waitSleep(now - rl.lastMessageTime, rate) + late
     IN  /\ now' = t
         /\ rl' = limiterWait(rl, t)
  /\ pc' = "ready"
  /\ UNCHANGED <<app, tx, rendered, gui, policy, rate, file, state, rt, marks>>

\* The caller does something else between two calls.
PacingWork(d) ==
  /\ pc = "ready"
  /\ now' = now + d
  /\ pc' = "worked"
  /\ UNCHANGED <<app, tx, rendered, gui, policy, rate, file, state, rl, rt, marks>>

\* rateLimiter.reset()
PacingReset ==
  /\ pc \in {"ready", "worked"}
  /\ ~rl.fresh
  /\ rl' = limiterReset(rl)
  /\ UNCHANGED <<app, tx, rendered, gui, policy, rate, file, state, pc, now, rt, marks>>

NextPacing ==
  \/ \E late \in Lateness : PacingWait(late)
  \/ \E d \in WorkTimes : PacingWork(d)
  \/ PacingReset

SpecPacing == InitPacing /\ [][NextPacing]_vars

\* ---- StateTracker ----
TestPhones == { <<"+", "1">>, <<"+", "1", ":", "2">> }
TestMessages == { <<"x">>, <<"2", ":", "x">> }

InitLedger ==
  /\ policy = DefaultPolicy
  /\ rate = [num |-> 1, den |-> 1]
  /\ file = JsonFile(EmptyState)
  /\ now = StartTime
  /\ pc = "tracker"
  /\ AtRest

\* await stateTracker.markAsSent(phone, message)
LedgerMark(phone, message, w) ==
  /\ pc = "tracker"
  /\ Len(marks) < MaxMarks
  /\ LET m == markAsSent(state, file, phone, message, now, w)
     IN  /\ state' = m.state
         /\ file' = m.file
         /\ marks' = Append(marks,
                       [phone |-> phone, message |-> message, t |-> now,
                        before |-> state.sentMessages,
                        after |-> m.state.sentMessages, ok |-> m.ok])
  /\ now' = now + 1
  /\ UNCHANGED <<app, tx, rendered, gui, policy, rate, pc, rl, rt>>

NextLedger ==
  \E phone \in TestPhones, message \in TestMessages, w \in WriteOutcomes :
    LedgerMark(phone, message, w)

SpecLedger == InitLedger /\ [][NextLedger]_vars

(***************************************************************************)
(* Properties of the components                                            *)
(***************************************************************************)
\* The k-th delay of a policy: initial_delay first, then the previous delay
\* times the multiplier, capped at max_delay.
RECURSIVE ExpectedDelay(_, _)
ExpectedDelay(p, k) ==
  IF k = 1 THEN p.initial_delay_ms
  ELSE Min(ExpectedDelay(p, k - 1) * p.backoff_multiplier, p.max_delay_ms)

RECURSIVE SumSeq(_)
SumSeq(q) == IF q = <<>> THEN 0 ELSE Head(q) + SumSeq(Tail(q))

NoResetBetween(j, k) == \A m \in (j + 1)..k : ~rl.returns[m].fresh

\* C9 as stated: consecutive wait() calls return at least 1/R apart, so k - j
\* further calls take at least (k - j) / R, whatever the caller does between.
C9_PacingExact ==
  \A j, k \in DOMAIN rl.returns :
    (j < k /\ NoResetBetween(j, k)) =>
      (rl.returns[k].t - rl.returns[j].t) * rate.num
        >= (k - j) * MsPerSecond * rate.den

\* C9 amended: consecutive wait() calls return more than 1/R - 1 ms apart
\* (the timer drops the fraction of a millisecond of the remaining delay),
\* so k - j further calls take more than (k - j) * (1/R - 1 ms).
C9_PacingWithinTimer ==
  \A j, k \in DOMAIN rl.returns :
    (j < k /\ NoResetBetween(j, k)) =>
      (rl.returns[k].t - rl.returns[j].t) * rate.num
        > (k - j) * (MsPerSecond * rate.den - rate.num)

C9_Witness ==
  /\ rate = [num |-> 3, den |-> 1]
  /\ Len(rl.returns) = 3
  /\ NoResetBetween(1, 3)
  /\ rl.returns[3].t - rl.returns[1].t = 666

LoopStarted == stats.total > 0

\* The process ended by itself: no signal was handled and it was not killed.
EndedByItself == pc = "exited" /\ cause \notin {"signal", "crash"}

\* C11: once the contact loop has started no error raised while a contact is
\* processed escapes run(): main() never reaches its catch block, and the
\* process ends with every valid contact counted and the summary logged.
C11_ErrorsContained ==
  LoopStarted =>
    /\ pc \notin {"fatal", "fatalClosing"}
    /\ EndedByItself => summary /\ Len(outcome) = Len(valid)

\* C12: when the configuration cannot be loaded, the state file exists but
\* does not parse, or whatsapp.initialize() fails, the process makes no
\* sendMessage call, adds no ledger entry and counts no contact.
C12_FatalSetup ==
  (cause = "config" \/ fileAtStart.kind = "corrupt" \/ cause = "transport") =>
    /\ "sendMessage" \notin transportLog
    /\ sendOk = {} /\ sendErr = {}
    /\ state.sentMessages = loaded.sentMessages
    /\ fileEntries(file) = fileEntries(fileAtStart)
    /\ stats = ZeroStats
    /\ outcome = <<>>

C12_Witness ==
  /\ pc = "exited"
  /\ cause = "transport"
  /\ Len(valid) = MaxContacts
  /\ fileEntries(file) # <<>>
  /\ whatsapp = "closed"

\* C13: a process that ends by itself exits with code 0 when its run logged
\* the summary, however many contacts failed, and with a code other than 0
\* when loading the configuration, loading the ledger or initializing the
\* transport failed, also when there is no logger yet.
C13_ExitCode ==
  EndedByItself =>
    /\ summary => exitCode = 0
    /\ cause \in {"config", "ledger", "transport"} => exitCode > 0

C13_Witness ==
  /\ pc = "exited"
  /\ cause = "config"
  /\ ~hasLogger
  /\ exitCode = 1
  /\ prev.ended = "exited"
  /\ ~prev.allSent

\* C15: a stop signal takes effect only between contacts or between retry
\* attempts: the handler never closes the browser and exits while a
\* sendMessage attempt is in flight or between a sendMessage that resolved
\* and its markAsSent.
C15_CooperativeStop ==
  [][(cause' = "signal" /\ pc' = "exited") => pc \notin {"send", "mark"}]_vars

\* C16: whenever the process has ended other than by being killed, a browser
\* that was launched is closed, and close() was invoked at most once.
C16_TransportReleased ==
  (pc = "exited" /\ cause # "crash") =>
    /\ whatsapp \notin {"running", "closing"}
    /\ closeCalls <= 1

\* C17: after a crash during a live run the state file parses, every entry
\* in it is the entry of a delivered pair and every delivered pair has its
\* entry in it.
C17_CrashConsistent ==
  (pc = "exited" /\ cause = "crash" /\ ~dryRun) =>
    /\ file.kind = "json"
    /\ \A h \in DOMAIN fileEntries(file) :
         \E p \in DOMAIN delivered : h = generateHash(p[1], p[2])
    /\ \A p \in DOMAIN delivered :
         generateHash(p[1], p[2]) \in DOMAIN fileEntries(file)

Digits == {"0", "1", "2", "3", "4", "5", "6", "7", "8", "9"}

\* '+' followed by digits only.
IsInternational(phone) ==
  /\ Len(phone) >= 1
  /\ phone[1] = "+"
  /\ \A k \in 2..Len(phone) : phone[k] \in Digits

\* C20: the phone of every contact validateContacts returns as valid is a
\* '+' followed by digits only, and the rows it returns as invalid are the
\* rows without a phone value.
C20_PhoneNormalized ==
  LET v == validateContacts(contacts)
  IN  /\ \A k \in DOMAIN v.valid : IsInternational(v.valid[k].phone)
      /\ \A k \in DOMAIN valid : IsInternational(valid[k].phone)
      /\ Len(v.valid) + Len(v.invalid) = Len(contacts)
      /\ Len(v.valid) = ValidCount

(***************************************************************************)
(* retryWithBackoff(sendMessage) for one contact, step by step             *)
(***************************************************************************)
\* config.retry with one to MaxAttempts attempts.
TransportPolicies ==
  { [DefaultPolicy EXCEPT !.max_attempts = n] : n \in 1..MaxAttempts }

InitTransport ==
  /\ policy \in TransportPolicies
  /\ rate = [num |-> 1, den |-> 1]
  /\ file = AbsentFile
  /\ now = StartTime
  /\ pc = "call"
  /\ contacts = <<>>
  /\ template = <<>>
  /\ headers = {"phone", "name"}
  /\ screenshots = "present"
  /\ run = 0
  /\ delivered = <<>>
  /\ fileAtStart = AbsentFile
  /\ loaded = EmptyState
  /\ prev = NoRun
  /\ marks = <<>>
  /\ state = EmptyState
  /\ dryRun = FALSE
  /\ whatsapp = "running"
  /\ valid = <<>>
  /\ i = 0
  /\ stats = ZeroStats
  /\ summary = FALSE
  /\ exitCode = -1
  /\ rl = NewLimiter
  /\ rt = IdleRetry
  /\ outcome = <<>>
  /\ transportLog = {}
  /\ sendOk = {}
  /\ sendErr = {}
  /\ cause = "none"
  /\ closeCalls = 0
  /\ tx \in { [IdleSend EXCEPT !.text = t, !.image = g] : t, g \in BOOLEAN }
  /\ rendered = <<>>
  /\ automationProcess = 0
  /\ children = <<>>
  /\ running = FALSE
  /\ pending = NoDelete
  /\ clicked = <<>>

\* What the steps of a sendMessage call leave alone.
callRest ==
  <<app, policy, rate, file, state, now, rl, marks, rendered, gui>>

\* The attempt ends: sendMessage returned, or threw into retryWithBackoff,
\* which starts the next attempt or gives up.
endAttempt(t, how) ==
  IF how = "return"
  THEN /\ tx' = [t EXCEPT !.result = "returned"]
       /\ rt' = [retryOnSuccess(rt) EXCEPT !.log = Append(rt.log, "ok")]
       /\ pc' = "settled"
  ELSE LET r == retryOnError(rt, policy, "send failed")
       IN  /\ rt' = [r EXCEPT !.log = Append(rt.log, "send failed")]
           /\ IF r.status = "running"
              THEN tx' = sendBegin(t) /\ pc' = "goto"
              ELSE tx' = [t EXCEPT !.result = "threw"] /\ pc' = "settled"

\* Where the call goes next; "return" and "throw" end the attempt.
goOn(t, step) ==
  IF step \in {"return", "throw"}
  THEN endAttempt(t, step)
  ELSE tx' = t /\ pc' = step /\ UNCHANGED rt

\* retryWithBackoff is called and makes its first call of sendMessage.
TransportCall ==
  /\ pc = "call"
  /\ rt' = retryBegin(policy)
  /\ tx' = sendBegin(tx)
  /\ pc' = "goto"
  /\ UNCHANGED callRest

\* page.goto(chatUrl) and the wait for the chat; the draft is cleared inside
\* a try block of its own.
Navigate(ok) ==
  /\ pc = "goto"
  /\ goOn(tx, IF ok THEN "number" ELSE "throw")
  /\ UNCHANGED callRest

\* The page says the phone number is invalid, or it does not.
CheckNumber(invalidNumber) ==
  /\ pc = "number"
  /\ goOn(tx, IF invalidNumber THEN "throw" ELSE afterNumberCheck(tx))
  /\ UNCHANGED callRest

\* sendImageWithCaption: it throws before the send button is clicked (file,
\* file input or button not found), or clicks it and returns.
SendImage(ok) ==
  /\ pc = "image"
  /\ IF ok
     THEN goOn([tx EXCEPT !.imageSends = @ + 1], afterImage(tx))
     ELSE goOn(tx, "throw")
  /\ UNCHANGED callRest

\* The input box is waited for; the text is typed and Enter is pressed.
TypeText(boxFound) ==
  /\ pc = "text"
  /\ IF boxFound
     THEN goOn([tx EXCEPT !.textSends = @ + 1], "verify")
     ELSE goOn(tx, "throw")
  /\ UNCHANGED callRest

\* verifyMessageSent(): a check mark is on the page, or none is.
Verify(seen) ==
  /\ pc = "verify"
  /\ goOn([tx EXCEPT !.confirmed = seen], afterVerify(seen))
  /\ UNCHANGED callRest

NextTransport ==
  \/ TransportCall
  \/ \E ok \in BOOLEAN : Navigate(ok)
  \/ \E invalidNumber \in BOOLEAN : CheckNumber(invalidNumber)
  \/ \E ok \in BOOLEAN : SendImage(ok)
  \/ \E boxFound \in BOOLEAN : TypeText(boxFound)
  \/ \E seen \in BOOLEAN : Verify(seen)

SpecTransport == InitTransport /\ [][NextTransport]_vars

\* C14: a sendMessage call returns only after verifyMessageSent() saw a
\* delivery check mark during that call, whether it had a text, an image
\* only, or neither.
C14_ConfirmedReturn == tx.result = "returned" => tx.confirmed

\* C18: every sleep of retryWithBackoff lasts at most max_delay_ms, also
\* when initial_delay_ms is greater.
C18_SleepCapped ==
  \A k \in DOMAIN rt.sleeps : rt.sleeps[k] <= policy.max_delay_ms

\* C19: with the default policy and an operation that fails every time the
\* waits are 1 s after the first failed attempt, 2 s after the second and
\* 4 s after the third.
C19_DefaultWaits ==
  (policy = DefaultPolicy /\ rt.status = "rejected") =>
    rt.sleeps = <<1000, 2000, 4000>>

(***************************************************************************)
(* renderTemplate on its own                                               *)
(***************************************************************************)
\* The three placeholder forms of the field "name".
Placeholders == {"{{name}}", "{name}", "${name}"}

\* What a template is made of: the placeholders and a literal character.
RenderTokens == Placeholders \cup {"a"}

InitRender ==
  /\ template \in SeqsUpTo(RenderTokens, MaxTokens)
  /\ contacts \in { <<row>> : row \in {r \in RawRows : hasPhone(r)} }
  /\ headers = {"phone", "name"}
  /\ screenshots = "present"
  /\ policy = DefaultPolicy
  /\ rate = [num |-> 1, den |-> 1]
  /\ file = AbsentFile
  /\ now = StartTime
  /\ pc = "call"
  /\ run = 0
  /\ delivered = <<>>
  /\ fileAtStart = AbsentFile
  /\ loaded = EmptyState
  /\ prev = NoRun
  /\ marks = <<>>
  /\ Fresh

\* renderTemplate(template, contact) for the contact of the only row.
Render ==
  /\ pc = "call"
  /\ rendered' = renderTemplate(template, toContact(contacts[1]))
  /\ pc' = "returned"
  /\ UNCHANGED <<app, tx, gui, policy, rate, file, state, now, rl, rt, marks>>

NextRender == Render

SpecRender == InitRender /\ [][NextRender]_vars

\* The template with the value of the field in the place of each placeholder.
Substituted(tpl, value) ==
  Flatten([k \in 1..Len(tpl) |->
             IF tpl[k] \in Placeholders THEN value ELSE <<tpl[k]>>])

\* C21: renderTemplate replaces every occurrence of {{f}}, {f} and ${f} in
\* full by the value of f, leaving no character of the placeholder.
C21_PlaceholdersReplaced ==
  pc = "returned" =>
    rendered = Substituted(template, toContact(contacts[1]).name)

\* C22: when the operation first succeeds at attempt k <= max_attempts,
\* retryWithBackoff has invoked it exactly k times and slept exactly k - 1
\* times, it resolves with that attempt, and it invokes nothing afterwards.
C22_FirstSuccess ==
  \A k \in DOMAIN rt.log :
    rt.log[k] = "ok" =>
      /\ k = Len(rt.log)
      /\ k <= policy.max_attempts
      /\ rt.status = "resolved"
      /\ rt.calls = k
      /\ Len(rt.sleeps) = k - 1
      /\ now = StartTime + SumSeq(rt.sleeps)

C22_Witness ==
  /\ rt.status = "resolved"
  /\ policy = DefaultPolicy
  /\ rt.calls = policy.max_attempts
  /\ rt.log = <<"e1", "e2", "ok">>

(***************************************************************************)
(* Properties of the contact loop                                          *)
(***************************************************************************)
\* The contacts of this run that reached retryWithBackoff(sendMessage): those
\* with an attempt made, and the one whose first attempt is being made.
Reached == sendOk \cup sendErr \cup (IF pc = "send" THEN {i} ELSE {})

\* The contacts whose pair was not in the ledger when it was loaded.
NotInLedger ==
  {k \in DOMAIN valid : ~wasMessageSent(loaded, Pair(k)[1], Pair(k)[2])}

\* C23: in a live run rateLimiter.wait() is called once for each contact
\* that reaches the Transport, right before its first sendMessage attempt,
\* and not for a skipped contact, in a dry run or between retry attempts.
C23_WaitPerSend ==
  /\ rl.waits = Cardinality(Reached)
  /\ Len(rl.returns) = rl.waits
  /\ rl.waits <= Cardinality(NotInLedger)
  /\ dryRun => rl.waits = 0
  /\ (pc = "send" /\ rt.calls = 0) => rl.lastMessageTime = now
  /\ \A k \in DOMAIN outcome :
       outcome[k] \in {"Skipped", "DryRunLogged", "Failed:render"} => k \notin Reached

C23_Witness ==
  /\ pc = "exited"
  /\ summary
  /\ outcome = <<"Skipped", "Sent">>
  /\ sendOk \cap sendErr # {}
  /\ rl.waits = 1

\* C24: every wait() that returns leaves lastMessageTime at the time of its
\* return, whether it slept or not, and the first wait() after construction
\* or after reset() returns without sleeping: the clock moves by no more
\* than the two readings of Date.now() may differ.
C24_WaitStamps ==
  [][rl'.waits = rl.waits + 1 =>
       /\ rl'.lastMessageTime = now'
       /\ rl.fresh => now' - now \in Lateness]_vars

C24_Witness ==
  \E k \in 2..Len(rl.returns) :
    /\ rl.returns[k].fresh
    /\ ~rl.returns[k - 1].fresh
    /\ rl.returns[k].t = rl.returns[k - 1].t
    /\ rl.lastMessageTime = rl.returns[k].t

(***************************************************************************)
(* Properties of the ledger during the runs                                *)
(***************************************************************************)
\* C25: when load() returns and there was no state file, the file exists
\* and holds an empty ledger, as the memory does; when there was a file that
\* parses, the memory holds the file's content and the file was not written.
C25_LoadCreatesOrReads ==
  pc = "initialized" =>
    /\ fileAtStart.kind = "absent" =>
         /\ file.kind = "json"
         /\ fileEntries(file) = <<>>
         /\ state.sentMessages = <<>>
         /\ file.data = state
    /\ fileAtStart.kind = "json" =>
         /\ state = fileAtStart.data
         /\ file = fileAtStart

C25_Witness ==
  /\ pc = "initialized"
  /\ fileAtStart.kind = "json"
  /\ fileEntries(fileAtStart) # <<>>
  /\ state.lastUpdated < now

\* The process has loaded its ledger and is not inside markAsSent.
LedgerAtRest ==
  /\ pc \in {"initialized", "loop", "send", "done", "fatal", "closing",
             "fatalClosing"}
  /\ cause \notin {"config", "ledger"}

\* C26: whenever the run is not inside markAsSent, the entries in the state
\* file are the entries in memory, after a markAsSent that returned and
\* after one that rejected with a storage error.
C26_FileMirrorsMemory ==
  LedgerAtRest =>
    /\ file.kind = "json"
    /\ fileEntries(file) = state.sentMessages

\* C27: during a run no step removes a fingerprint from the ledger in
\* memory, every entry is filed under its own fingerprint, and a fingerprint
\* is added only by the markAsSent that follows the contact's resolved
\* retryWithBackoff(sendMessage): it is that contact's fingerprint.
C27_LedgerGrows ==
  [][pc \notin {"idle", "exited"} =>
       /\ hashes(state) \subseteq hashes(state')
       /\ \A h \in hashes(state') : state'.sentMessages[h].messageHash = h
       /\ \A h \in hashes(state') \ hashes(state) :
            /\ pc = "mark"
            /\ rt.status = "resolved"
            /\ i \in sendOk
            /\ h = PairHash(i)]_vars

C27_Witness ==
  /\ pc = "done"
  /\ Cardinality(hashes(loaded)) = 1
  /\ Cardinality(hashes(state)) = 2
  /\ outcome = <<"Skipped", "Sent">>

\* C28: two different (phone, message) pairs of valid contacts never give
\* generateHash the same string to hash.
C28_PreimageInjective ==
  \A j, k \in DOMAIN valid : Pair(j) # Pair(k) => PairHash(j) # PairHash(k)

\* A step of a run that is not the end of the process by a signal or a kill.
RunStep == pc \notin {"idle", "exited"} /\ cause' \notin {"signal", "crash"}

\* C29: every valid contact reaches one terminal state and one counter is
\* incremented once for it: no counter decreases, the counters count the
\* terminal states reached, at the loop boundary they add up to the number
\* of contacts processed, and when the process ends after the loop started
\* every valid contact has reached its terminal state.
C29_OneTerminalState ==
  [][RunStep =>
       /\ stats'.sent >= stats.sent
       /\ stats'.skipped >= stats.skipped
       /\ stats'.failed >= stats.failed
       /\ (stats'.sent + stats'.skipped + stats'.failed)
            - (stats.sent + stats.skipped + stats.failed)
            = Len(outcome') - Len(outcome)
       /\ Len(outcome') - Len(outcome) \in {0, 1}
       /\ pc' = "loop" =>
            stats'.sent + stats'.skipped + stats'.failed = i' - 1
       /\ (pc' = "exited" /\ stats'.total > 0) =>
            Len(outcome') = Len(valid')]_vars

\* C30: the contacts are processed one after the other in the order of the
\* list: while contact i is processed every contact before it has reached
\* its terminal state and none after it has been touched; sendMessage
\* attempts, ledger writes and counter updates are those of contact i.
C30_Sequential ==
  [][RunStep =>
       /\ i' \in {i, i + 1}
       /\ pc' \in {"loop", "send", "mark"} => Len(outcome') = i' - 1
       /\ (sendOk' \cup sendErr') \ (sendOk \cup sendErr) \subseteq {i}
       /\ sendOk' \cup sendErr' \subseteq 1..Len(outcome') + 1
       /\ hashes(state') # hashes(state) =>
            /\ i \in DOMAIN valid
            /\ hashes(state') \ hashes(state) = {PairHash(i)}
       /\ (stats' # stats /\ pc # "initialized") =>
            /\ Len(outcome) = i - 1
            /\ Len(outcome') = i]_vars

C30_Witness ==
  /\ pc = "done"
  /\ outcome = <<"Failed:retry", "Sent">>
  /\ sendErr = {1}
  /\ sendOk = {2}
  /\ Cardinality(hashes(state)) = 1

(***************************************************************************)
(* Termination of a run                                                    *)
(***************************************************************************)
\* The steps of a process that no signal interrupts and nothing kills:
\* every await of main() and run() resolves or rejects.
NextRun ==
  \/ \E dry \in BOOLEAN, configOk \in BOOLEAN,
        w \in Writes(file.kind = "absent") :
       Initialize(dry, configOk, w)
  \/ \E filesOk \in BOOLEAN, initOk \in BOOLEAN, launched \in BOOLEAN :
       RunStart(filesOk, initOk, launched)
  \/ Contact
  \/ \E ok \in BOOLEAN : SendAttempt(ok)
  \/ \E w \in WriteOutcomes : MarkAsSent(w)
  \/ Summary
  \/ Shutdown
  \/ Exit

\* Every Transport call, timer and ledger write terminates: the process
\* always takes its next step.
SpecLive == Init /\ [][NextRun]_vars /\ WF_vars(NextRun)

\* C31: a run that entered the contact loop eventually processes every
\* valid contact and logs the run summary, whichever contacts fail.
C31_RunTerminates ==
  \A r \in 1..MaxRuns :
    (run = r /\ pc = "loop")
      ~> (run = r /\ summary /\ Len(outcome) = Len(valid))

(***************************************************************************)
(* The GUI: Electron main process, renderer and automation children        *)
(***************************************************************************)
\* The contact and the messages of the children's runs.
GuiPhone == <<"+", "1">>
GuiHashes == { generateHash(GuiPhone, m) : m \in TestMessages }

\* spawn(...): the child has started and has not loaded its ledger yet.
NewChild(dry) ==
  [status |-> "alive", dryRun |-> dry, loaded |-> FALSE, state |-> EmptyState]

\* A child whose process has exited.
EndedChild ==
  [status |-> "ended", dryRun |-> FALSE, loaded |-> FALSE, state |-> EmptyState]

\* The children whose process has not exited: running, or handling the
\* SIGTERM of automationProcess.kill() (shutdown() awaits browser.close()).
Live == {c \in DOMAIN children : children[c].status # "ended"}

\* delete state.sentMessages[hash] for the hashes asked, then lastUpdated.
deleteEntries(st, hs, t) ==
  [sentMessages |-> [k \in DOMAIN st.sentMessages \ hs |-> st.sentMessages[k]],
   lastUpdated |-> t]

guiRest == <<app, tx, rendered, policy, rate, state, pc, now, rl, rt, marks>>

InitGui ==
  /\ policy = DefaultPolicy
  /\ rate = [num |-> 1, den |-> 1]
  /\ file \in {AbsentFile, JsonFile(EmptyState)}
  /\ now = StartTime
  /\ pc = "gui"
  /\ AtRest

\* Click on Run or Dry run (the button is enabled): the handler first
\* awaits save-config.
RunClick(dry) ==
  /\ pc = "gui"
  /\ ~running
  /\ Len(clicked) < MaxClicks
  /\ Len(children) + Len(clicked) < MaxChildren
  /\ clicked' = Append(clicked, dry)
  /\ UNCHANGED <<guiRest, file, automationProcess, children, running, pending>>

\* The handler goes on: setRunningState(true), then run-dry-run or
\* run-automation.  runAutomation refuses when automationProcess is set,
\* else spawns a child and refers to it; a refusal sets the state back.
RunInvoke ==
  /\ pc = "gui"
  /\ clicked # <<>>
  /\ clicked' = Tail(clicked)
  /\ IF automationProcess # 0
     THEN /\ running' = FALSE
          /\ UNCHANGED <<automationProcess, children>>
     ELSE /\ children' = Append(children, NewChild(Head(clicked)))
          /\ automationProcess' = Len(children) + 1
          /\ running' = TRUE
  /\ UNCHANGED <<guiRest, file, pending>>

\* Click on Stop (enabled while the state is running): stop-automation
\* kills the child referred to and clears the reference at once.
StopClick ==
  /\ pc = "gui"
  /\ running
  /\ IF automationProcess # 0
     THEN /\ children' = [children EXCEPT ![automationProcess].status = "stopping"]
          /\ automationProcess' = 0
     ELSE UNCHANGED <<automationProcess, children>>
  /\ running' = FALSE
  /\ UNCHANGED <<guiRest, file, pending, clicked>>

\* The child's initialize(): StateTracker.load().
ChildLoad(c) ==
  /\ pc = "gui"
  /\ c \in Live
  /\ ~children[c].loaded
  /\ file.kind # "corrupt"
  /\ LET l == load(file, now, "ok")
     IN  /\ children' = [children EXCEPT ![c].loaded = TRUE, ![c].state = l.state]
         /\ file' = l.file
  /\ UNCHANGED <<guiRest, automationProcess, running, pending, clicked>>

\* A live run's child sent a message it had not sent: markAsSent.
ChildMark(c, message) ==
  /\ pc = "gui"
  /\ c \in Live
  /\ children[c].loaded
  /\ ~children[c].dryRun
  /\ ~wasMessageSent(children[c].state, GuiPhone, message)
  /\ LET m == markAsSent(children[c].state, file, GuiPhone, message, now, "ok")
     IN  /\ children' = [children EXCEPT ![c].state = m.state]
         /\ file' = m.file
  /\ UNCHANGED <<guiRest, automationProcess, running, pending, clicked>>

\* The child's process exits and its 'close' event is handled:
\* automationProcess = null, and automation-complete sets the state back.
ChildEnds(c) ==
  /\ pc = "gui"
  /\ c \in Live
  /\ children' = [children EXCEPT ![c] = EndedChild]
  /\ automationProcess' = 0
  /\ running' = FALSE
  /\ UNCHANGED <<guiRest, file, pending, clicked>>

\* clear-state: unlink of the state file.
ClearState ==
  /\ pc = "gui"
  /\ file' = AbsentFile
  /\ UNCHANGED <<guiRest, gui>>

\* delete-sent-message(s): readFile and JSON.parse.
DeleteRead(hs) ==
  /\ pc = "gui"
  /\ ~pending.active
  /\ file.kind = "json"
  /\ pending' = [active |-> TRUE, hashes |-> hs, read |-> file.data]
  /\ UNCHANGED <<guiRest, file, automationProcess, children, running, clicked>>

\* delete-sent-message(s): the state read is written back without the
\* entries asked, when it held one of them.
DeleteWrite ==
  /\ pc = "gui"
  /\ pending.active
  /\ file' = IF pending.hashes \cap hashes(pending.read) # {}
             THEN JsonFile(deleteEntries(pending.read, pending.hashes, now))
             ELSE file
  /\ pending' = NoDelete
  /\ UNCHANGED <<guiRest, automationProcess, children, running, clicked>>

NextGui ==
  \/ \E dry \in BOOLEAN : RunClick(dry)
  \/ RunInvoke
  \/ StopClick
  \/ \E c \in DOMAIN children : ChildLoad(c)
  \/ \E c \in DOMAIN children, m \in TestMessages : ChildMark(c, m)
  \/ \E c \in DOMAIN children : ChildEnds(c)
  \/ ClearState
  \/ \E hs \in SUBSET GuiHashes \ {{}} : DeleteRead(hs)
  \/ DeleteWrite

SpecGui == InitGui /\ [][NextGui]_vars

\* C32: at most one automation child is alive at a time, and
\* automationProcess refers to the child that is running.
C32_SingleChild ==
  /\ Cardinality(Live) <= 1
  /\ \A c \in Live : children[c].status = "alive" => automationProcess = c

\* C33: the state file has one writer while a child is alive: the GUI
\* changes it only when no child is alive, so a markAsSent of the run adds
\* its entry and brings back none, and a deletion removes the entries asked
\* and no other.
C33_SingleWriter ==
  [][/\ ((ClearState \/ DeleteWrite) /\ file' # file) => Live = {}
     /\ (\E c \in DOMAIN children, m \in TestMessages : ChildMark(c, m)) =>
          \E h \in GuiHashes :
            DOMAIN fileEntries(file') = DOMAIN fileEntries(file) \cup {h}
     /\ DeleteWrite =>
          DOMAIN fileEntries(file') = DOMAIN fileEntries(file) \ pending.hashes
    ]_vars

\* C34: retryWithBackoff leaves the policy as it is, and each call starts
\* its backoff anew: the delay of a call's first attempt and its first
\* sleep are initial_delay_ms, whatever the earlier contacts needed.
C34_BackoffPerCall ==
  [][/\ policy' = policy
     /\ (rt'.status = "running" /\ rt'.attempt = 1) =>
          rt'.delay = policy.initial_delay_ms
     /\ rt'.sleeps # <<>> => rt'.sleeps[1] = policy.initial_delay_ms
    ]_vars

C34_Witness ==
  /\ pc = "send"
  /\ i = 2
  /\ outcome = <<"Failed:retry">>
  /\ 2 \in sendErr
  /\ rt.attempt = 2
  /\ rt.sleeps = <<policy.initial_delay_ms>>
  /\ rt.delay > policy.initial_delay_ms

(***************************************************************************)
(* StateTracker.cleanup                                                    *)
(***************************************************************************)
MsPerDay == 86400000

\* cleanup() keeping only the entries newer than the cutoff date.
cleanupStrict(st, f, days, t, w) ==
  LET cutoff == t - days * MsPerDay
      kept == {k \in DOMAIN st.sentMessages :
                 st.sentMessages[k].timestamp > cutoff}
      new == [st EXCEPT !.sentMessages = [k \in kept |-> st.sentMessages[k]]]
      removedCount == Cardinality(DOMAIN st.sentMessages) - Cardinality(kept)
  IN  IF removedCount > 0
      THEN [ok |-> save(new, f, t, w).ok, state |-> save(new, f, t, w).state,
            file |-> save(new, f, t, w).file, removedCount |-> removedCount]
      ELSE [ok |-> TRUE, state |-> new, file |-> f, removedCount |-> 0]

\* cleanup(days): the cutoff date is days before now; the entries whose
\* date is not before it are kept; save() is called when one was removed.
cleanup(st, f, days, t, w) ==
  LET cutoff == t - days * MsPerDay
      kept == {k \in DOMAIN st.sentMessages :
                 st.sentMessages[k].timestamp >= cutoff}
      new == [st EXCEPT !.sentMessages = [k \in kept |-> st.sentMessages[k]]]
      removedCount == Cardinality(DOMAIN st.sentMessages) - Cardinality(kept)
  IN  IF removedCount > 0
      THEN [ok |-> save(new, f, t, w).ok, state |-> save(new, f, t, w).state,
            file |-> save(new, f, t, w).file, removedCount |-> removedCount]
      ELSE [ok |-> TRUE, state |-> new, file |-> f, removedCount |-> 0]

\* The dates of the entries of the ledgers cleaned: today, and the days before.
EntryDates == { StartTime + d * MsPerDay : d \in 0..MaxDays }

\* The ledgers cleaned: each pair absent, or sent at one of the dates.
CleanupLedgers ==
  { [sentMessages |->
        [h \in DOMAIN d |->
           [phone |-> GuiPhone, messageHash |-> h, timestamp |-> d[h]]],
     lastUpdated |-> StartTime] :
      d \in UNION { [hs -> EntryDates] : hs \in SUBSET GuiHashes } }

InitCleanup ==
  /\ policy = DefaultPolicy
  /\ rate = [num |-> 1, den |-> 1]
  /\ state \in CleanupLedgers
  /\ file = JsonFile(state)
  /\ now \in { StartTime + MaxDays * MsPerDay, StartTime + MaxDays * MsPerDay + 1 }
  /\ pc = "tracker"
  /\ contacts = <<>>
  /\ template = <<>>
  /\ headers = {"phone", "name"}
  /\ screenshots = "present"
  /\ run = 0
  /\ delivered = <<>>
  /\ fileAtStart = file
  /\ loaded = state
  /\ prev = NoRun
  /\ marks = <<>>
  /\ dryRun = FALSE
  /\ whatsapp = "null"
  /\ valid = <<>>
  /\ i = 0
  /\ stats = ZeroStats
  /\ summary = FALSE
  /\ exitCode = -1
  /\ rl = NewLimiter
  /\ rt = IdleRetry
  /\ outcome = <<>>
  /\ transportLog = {}
  /\ sendOk = {}
  /\ sendErr = {}
  /\ cause = "none"
  /\ closeCalls = 0
  /\ tx = IdleSend
  /\ rendered = <<>>
  /\ automationProcess = 0
  /\ children = <<>>
  /\ running = FALSE
  /\ pending = NoDelete
  /\ clicked = <<>>

\* await stateTracker.cleanup(days)
LedgerCleanup(days, w) ==
  /\ pc = "tracker"
  /\ Len(marks) < MaxCleanups
  /\ LET c == cleanup(state, file, days, now, w)
     IN  /\ state' = c.state
         /\ file' = c.file
         /\ marks' = Append(marks,
                       [days |-> days, t |-> now, before |-> state.sentMessages,
                        fileBefore |-> file, after |-> c.state.sentMessages,
                        ok |-> c.ok, removedCount |-> c.removedCount])
  /\ UNCHANGED <<contacts, template, headers, dryRun, whatsapp, run, valid, i,
                 stats, summary, exitCode, outcome, transportLog, sendOk,
                 sendErr, delivered, fileAtStart, loaded, prev, screenshots,
                 cause, closeCalls, tx, rendered, gui, policy, rate, pc, now,
                 rl, rt>>

NextCleanup ==
  \E days \in 0..MaxDays, w \in WriteOutcomes : LedgerCleanup(days, w)

SpecCleanup == InitCleanup /\ [][NextCleanup]_vars

\* The entries of a ledger dated before the cutoff of a cleanup call.
Older(call) ==
  {k \in DOMAIN call.before :
     call.before[k].timestamp < call.t - call.days * MsPerDay}

\* C35: cleanup(days) removes the entries older than now minus days and no
\* other, leaves the entries kept as they were, returns the number removed,
\* and writes the state file when, and only when, it removed an entry.
C35_CleanupExact ==
  marks # <<>> =>
    LET call == marks[Len(marks)]
    IN  /\ DOMAIN call.after = DOMAIN call.before \ Older(call)
        /\ \A k \in DOMAIN call.after : call.after[k] = call.before[k]
        /\ state.sentMessages = call.after
        /\ call.ok => call.removedCount = Cardinality(Older(call))
        /\ Older(call) = {} => call.ok /\ file = call.fileBefore
        /\ (Older(call) # {} /\ call.ok) =>
             file = JsonFile([sentMessages |-> call.after, lastUpdated |-> call.t])
        /\ (Older(call) # {} /\ ~call.ok) => file \in {call.fileBefore, CorruptFile}

C35_Witness ==
  /\ Len(marks) = 1
  /\ marks[1].ok
  /\ marks[1].days = 1
  /\ marks[1].removedCount = 1
  /\ Cardinality(DOMAIN marks[1].after) = 1
  /\ \E k \in DOMAIN marks[1].after :
       marks[1].after[k].timestamp = marks[1].t - MsPerDay
  /\ file # fileAtStart

\* C36: when a live run completes, sent is the number of contacts whose
\* retryWithBackoff(sendMessage) resolved, failed is the number of contacts
\* whose rendering failed or whose retries were exhausted, and no contact
\* whose message was delivered is counted as failed.
C36_CountersMatchSends ==
  (Finished /\ ~dryRun) =>
    /\ stats.sent = Cardinality(sendOk)
    /\ stats.failed =
         Cardinality({k \in DOMAIN outcome :
                        outcome[k] \in {"Failed:render", "Failed:retry"}})
    /\ \A k \in sendOk \cap DOMAIN outcome :
         outcome[k] \notin {"Failed:render", "Failed:retry", "Failed:mark"}

\* C37: in a dry run a contact is counted as skipped exactly when its
\* (phone, rendered message) pair was in the ledger as loaded, and as sent
\* otherwise, each time the pair occurs in the list.
C37_DryRunSkips ==
  dryRun =>
    /\ \A k \in DOMAIN outcome :
         IF renderThrows(headers) THEN outcome[k] = "Failed:render"
         ELSE IF PairHash(k) \in hashes(loaded) THEN outcome[k] = "Skipped"
         ELSE outcome[k] = "DryRunLogged"
    /\ stats.skipped =
         Cardinality({k \in DOMAIN outcome : outcome[k] = "Skipped"})
    /\ stats.sent =
         Cardinality({k \in DOMAIN outcome : outcome[k] = "DryRunLogged"})

C37_Witness ==
  /\ dryRun
  /\ pc = "done"
  /\ Len(valid) = 2
  /\ Pair(1) = Pair(2)
  /\ outcome = <<"DryRunLogged", "DryRunLogged">>
  /\ stats.sent = 2
  /\ stats.skipped = 0

\* C38: within the attempts retryWithBackoff makes for one contact, the
\* image is sent at most once and the text is sent at most once.
C38_PartsSentOnce ==
  /\ tx.imageSends <= 1
  /\ tx.textSends <= 1

====
